---- MODULE Spec2Model ----
(***************************************************************************)
(* Settlement calculation engine of AbrechnungsTool                        *)
(* (backend/app/services/calculation_service.py) together with the HTTP    *)
(* handlers that trigger it (backend/app/api/v1/endpoints/*.py).           *)
(*                                                                         *)
(* Money is carried in cents (Numeric(12,2)).  Ratios (area shares,        *)
(* allocation percentages, time fractions) are exact rationals [n, d];     *)
(* the inputs drawn below have terminating decimal expansions well inside  *)
(* the 28 digits of Python's Decimal context, so Decimal arithmetic on     *)
(* them is exact and quantize(..., ROUND_HALF_UP) is the only rounding.    *)
(* Dates are day numbers.                                                  *)
(***************************************************************************)
EXTENDS Integers, Sequences, FiniteSets, TLC

\* ------------------------------------------------------------------ bounds
MaxId == 4              \* surrogate ids available to SettlementResult rows
MaxDay == 5             \* last day number used for periods and tenancies

\* ------------------------------------------------------- program constants
NoDate == 0             \* tenant.move_out_date IS NULL
NoAmount == -1          \* a nullable Decimal column that IS NULL
NoResult == 0           \* documents.settlement_result_id IS NULL
NULL == "NULL"          \* a nullable unit reference that IS NULL

\* the settlement the requests name, and another one of the same property
ThisSettlement == "S1"
OtherSettlement == "S2"

\* ---------------------------------------------------------------- domains
UnitIds == {"U1", "U2"}
UnitOrder == <<"U1", "U2">>
Categories == {"HEIZUNG", "WASSERVERSORGUNG"}
InvoiceIds == {"I1"}
EntryIds == {"M1"}
DocIds == {"D1"}
Statuses == {"DRAFT", "CALCULATED", "FINALIZED"}

\* ------------------------------------------------------ decimal arithmetic
Abs(x) == IF x < 0 THEN -x ELSE x

RECURSIVE Gcd(_, _)
Gcd(a, b) == IF b = 0 THEN a ELSE Gcd(b, a % b)

\* a rational in lowest terms with a positive denominator
Rat(n, d) ==
    LET g == Gcd(Abs(n), Abs(d))
        s == IF d < 0 THEN -1 ELSE 1
    IN  [n |-> (s * n) \div g, d |-> (s * d) \div g]

RInt(k) == [n |-> k, d |-> 1]
RMul(a, b) == Rat(a.n * b.n, a.d * b.d)
RAdd(a, b) == Rat(a.n * b.d + b.n * a.d, a.d * b.d)

\* Decimal.quantize(Decimal('0.01'), rounding=ROUND_HALF_UP) of r cents:
\* ties go away from zero
RoundHalfUp(r) ==
    IF r.n >= 0 THEN (2 * r.n + r.d) \div (2 * r.d)
    ELSE -((2 * (-r.n) + r.d) \div (2 * r.d))

RECURSIVE RSum(_, _)
\* sum of f[x] over the finite set S
RSum(f, S) ==
    IF S = {} THEN RInt(0)
    ELSE LET x == CHOOSE y \in S : TRUE IN RAdd(f[x], RSum(f, S \ {x}))

RECURSIVE ISum(_, _)
ISum(f, S) ==
    IF S = {} THEN 0
    ELSE LET x == CHOOSE y \in S : TRUE IN f[x] + ISum(f, S \ {x})

VARIABLES
    settlement,       \* the Settlement row: exists, status, period_start, period_end
    total_area_sqm,   \* Property.total_area_sqm
    units,            \* Unit rows of the property: unit id -> area_sqm
    tenants,          \* unit id -> the unit's tenant list (Unit.tenants)
    allocations,      \* UnitAllocation rows
    invoices,         \* Invoice rows of the settlement
    manual_entries,   \* ManualEntry rows of the settlement
    results,          \* SettlementResult rows with their breakdowns
    documents,        \* Document rows of the settlement
    response,         \* HTTP status code of the last request served
    request,          \* the handler that served it
    in_flight         \* what a recalculation that has read and not yet written holds

vars == <<settlement, total_area_sqm, units, tenants, allocations, invoices,
          manual_entries, results, documents, response, request,
          in_flight>>

\* ------------------------------------------------------------ no tenant
NoTenant == [id |-> NULL, move_in_date |-> NoDate, move_out_date |-> NoDate,
             monthly_prepayment |-> NoAmount]

SetMin(S) == CHOOSE x \in S : \A y \in S : x <= y

\* ------------------------------------------------- calculation_service.py
\* As TenantQualifies, without the test of the move-out date.
TenantQualifies_without_move_out_test(tenant, period_start, period_end) ==
    ~(tenant.move_in_date > period_end)

\* The tenant test of the loop body: neither `continue` is taken.
TenantQualifies(tenant, period_start, period_end) ==
    /\ ~(tenant.move_in_date > period_end)
    /\ ~(tenant.move_out_date # NoDate /\ tenant.move_out_date < period_start)

\* As _get_tenant_for_period, but the loop keeps the last match.
_get_tenant_for_period_last(unit, period_start, period_end) ==
    LET ts == tenants[unit]
        q == {i \in 1..Len(ts) : TenantQualifies(ts[i], period_start, period_end)}
    IN  IF q = {} THEN NoTenant
        ELSE ts[CHOOSE i \in q : \A j \in q : j <= i]

\* The first tenant of unit.tenants that passes the test, or None.
_get_tenant_for_period(unit, period_start, period_end) ==
    LET ts == tenants[unit]
        q == {i \in 1..Len(ts) : TenantQualifies(ts[i], period_start, period_end)}
    IN  IF q = {} THEN NoTenant ELSE ts[SetMin(q)]

\* As _calculate_occupancy_days, without counting the last day.
_calculate_occupancy_days_without_last_day(tenant, period_start, period_end) ==
    LET effective_start == IF tenant.move_in_date > period_start
                           THEN tenant.move_in_date ELSE period_start
        effective_end == IF tenant.move_out_date # NoDate
                         THEN (IF tenant.move_out_date < period_end
                               THEN tenant.move_out_date ELSE period_end)
                         ELSE period_end
    IN  IF effective_start > effective_end THEN 0
        ELSE effective_end - effective_start

\* Lines 261-280.
_calculate_occupancy_days(tenant, period_start, period_end) ==
    LET effective_start == IF tenant.move_in_date > period_start
                           THEN tenant.move_in_date ELSE period_start
        effective_end == IF tenant.move_out_date # NoDate
                         THEN (IF tenant.move_out_date < period_end
                               THEN tenant.move_out_date ELSE period_end)
                         ELSE period_end
    IN  IF effective_start > effective_end THEN 0
        ELSE (effective_end - effective_start) + 1

\* Decimal of a Numeric(5,4) column value held in 1/10000
Pct(bp) == Rat(bp, 10000)

\* the amount an invoice adds to allocated_costs
InvoiceAllocated(invoice) ==
    IF invoice.allocation_percentage # NoAmount
    THEN RMul(RInt(invoice.total_amount), Pct(invoice.allocation_percentage))
    ELSE RInt(invoice.total_amount)

\* (original_costs, allocated_costs, invoice_allocations), each keyed by the
\* categories that have an invoice
_get_costs_by_category(inv) ==
    LET cats == {i.cost_category : i \in inv}
        of(c) == {i \in inv : i.cost_category = c}
        original == [c \in cats |->
                        ISum([i \in of(c) |-> i.total_amount], of(c))]
        allocated == [c \in cats |->
                        RSum([i \in of(c) |-> InvoiceAllocated(i)], of(c))]
    IN  [original_costs |-> original,
         allocated_costs |-> allocated,
         invoice_allocations |-> [c \in cats |->
             IF original[c] > 0
             THEN Rat(allocated[c].n, allocated[c].d * original[c])
             ELSE RInt(1)]]

AllocationRows(unit, category) ==
    {a \in allocations : a.unit_id = unit /\ a.cost_category = category}

\* As _get_allocation, with the division of line 303 left out.
_get_allocation_undivided(unit, category) ==
    IF AllocationRows(unit, category) # {}
    THEN LET a == CHOOSE r \in AllocationRows(unit, category) : TRUE
         IN  [raised |-> FALSE, percentage |-> Pct(a.allocation_percentage),
              method |-> a.allocation_method]
    ELSE [raised |-> FALSE, percentage |-> RInt(1), method |-> "WOHNFLAECHE"]

\* As _get_allocation, with the percentage divided by the sum of the
\* percentages of all units for the category.
_get_allocation_normalized(unit, category) ==
    LET raw(u) == IF AllocationRows(u, category) # {}
                  THEN Pct((CHOOSE r \in AllocationRows(u, category) : TRUE).allocation_percentage)
                  ELSE Rat(units[u], total_area_sqm)
        sum == RSum([u \in DOMAIN units |-> raw(u)], DOMAIN units)
    IN  [raised |-> FALSE,
         percentage |-> Rat(raw(unit).n * sum.d, raw(unit).d * sum.n),
         method |-> IF AllocationRows(unit, category) # {}
                    THEN (CHOOSE r \in AllocationRows(unit, category) : TRUE).allocation_method
                    ELSE "WOHNFLAECHE"]

\* The stored row verbatim, else the area share.  raised: the Decimal division
\* by a total area of 0 raises DivisionByZero / InvalidOperation.
_get_allocation(unit, category) ==
    IF AllocationRows(unit, category) # {}
    THEN LET a == CHOOSE r \in AllocationRows(unit, category) : TRUE
         IN  [raised |-> FALSE, percentage |-> Pct(a.allocation_percentage),
              method |-> a.allocation_method]
    ELSE IF total_area_sqm = 0
    THEN [raised |-> TRUE, percentage |-> RInt(0), method |-> "WOHNFLAECHE"]
    ELSE [raised |-> FALSE, percentage |-> Rat(units[unit], total_area_sqm),
          method |-> "WOHNFLAECHE"]

\* As _calculate_prepayments, with the days of the whole period.
_calculate_prepayments_for_the_whole_period(tenant, period_start, period_end) ==
    IF tenant.monthly_prepayment = NoAmount \/ tenant.monthly_prepayment = 0
    THEN 0
    ELSE RoundHalfUp(Rat(tenant.monthly_prepayment
                             * ((period_end - period_start) + 1) * 100, 3044))

\* Lines 310-329; 30.44 is held as 3044 / 100.
_calculate_prepayments(tenant, period_start, period_end) ==
    IF tenant.monthly_prepayment = NoAmount \/ tenant.monthly_prepayment = 0
    THEN 0
    ELSE LET days == _calculate_occupancy_days(tenant, period_start, period_end)
         IN  RoundHalfUp(Rat(tenant.monthly_prepayment * days * 100, 3044))

\* As AllocatedAmount, without the time share of lines 107-108.
AllocatedAmount_without_time_share(category_allocated, percentage, occupancy_days, total_days) ==
    RoundHalfUp(RMul(category_allocated, percentage))

\* allocated_amount of lines 104-110: the unit's share of the category's
\* allocated costs, prorated by time for a partial occupancy, then quantized
AllocatedAmount(category_allocated, percentage, occupancy_days, total_days) ==
    IF occupancy_days < total_days
    THEN RoundHalfUp(RMul(RMul(category_allocated, percentage),
                          Rat(occupancy_days, total_days)))
    ELSE RoundHalfUp(RMul(category_allocated, percentage))

\* The SettlementCostBreakdown row of lines 113-122; allocation_percentage is
\* stored in a Numeric(5,4) column.
BreakdownRow(category, costs, unit_allocation, occupancy_days, total_days) ==
    [cost_category |-> category,
     total_property_cost |-> costs.original_costs[category],
     allocation_percentage |->
         RoundHalfUp(RMul(RMul(costs.invoice_allocations[category],
                               unit_allocation.percentage), RInt(10000))),
     allocated_amount |->
         AllocatedAmount(costs.allocated_costs[category],
                         unit_allocation.percentage, occupancy_days, total_days),
     allocation_method |-> unit_allocation.method]

\* the breakdown row of one category for one unit (loop body, lines 93-122)
CostBreakdown(unit, category, costs, occupancy_days, total_days) ==
    BreakdownRow(category, costs, _get_allocation(unit, category),
                 occupancy_days, total_days)

\* As ManualEntryAmount, with every entry shared by area.
ManualEntryAmount_always_shared(unit, entry) ==
    RoundHalfUp(RMul(RInt(entry.amount), Rat(units[unit], total_area_sqm)))

\* the rounded amount one manual entry adds to a unit's total_costs
\* (lines 130-139)
ManualEntryAmount(unit, entry) ==
    IF entry.unit_id = NULL
    THEN RoundHalfUp(RMul(RInt(entry.amount), Rat(units[unit], total_area_sqm)))
    ELSE entry.amount

\* the manual entries that count for a unit (lines 125-128)
UnitManualEntries(unit, ents) ==
    {e \in ents : e.unit_id = NULL \/ e.unit_id = unit}

\* total_costs: the breakdown amounts plus the manual entries
TotalCosts(unit, breakdowns, unit_manual_entries) ==
    ISum([b \in breakdowns |-> b.allocated_amount], breakdowns)
    + ISum([e \in unit_manual_entries |-> ManualEntryAmount(unit, e)],
           unit_manual_entries)

\* Does the loop body raise for this unit?  The only divisions are by
\* property_obj.total_area_sqm (lines 133 and 303).
UnitRaises(unit, costs, ents) ==
    \/ \E c \in DOMAIN costs.allocated_costs : _get_allocation(unit, c).raised
    \/ total_area_sqm = 0 /\ \E e \in ents : e.unit_id = NULL

\* As ResultRow, with the subtraction of line 147 the other way round.
ResultRow_balance_reversed(rid, unit, tenant, total_costs, total_prepayments, occupancy_days, total_days, breakdowns) ==
    [id |-> rid,
     unit_id |-> unit,
     tenant_id |-> tenant.id,
     total_costs |-> total_costs,
     total_prepayments |-> total_prepayments,
     balance |-> total_prepayments - total_costs,
     occupancy_days |-> occupancy_days,
     total_days |-> total_days,
     settlement_id |-> ThisSettlement,
     notes |-> NULL,
     cost_breakdowns |-> breakdowns]

\* the SettlementResult row of lines 149-167 with its breakdown rows
ResultRow(rid, unit, tenant, total_costs, total_prepayments, occupancy_days, total_days, breakdowns) ==
    [id |-> rid,
     unit_id |-> unit,
     tenant_id |-> tenant.id,
     total_costs |-> total_costs,
     total_prepayments |-> total_prepayments,
     balance |-> total_costs - total_prepayments,
     occupancy_days |-> occupancy_days,
     total_days |-> total_days,
     settlement_id |-> ThisSettlement,
     notes |-> NULL,
     cost_breakdowns |-> breakdowns]

\* lines 89-167 for a unit whose occupancy is known
UnitCosts(rid, unit, tenant, costs, ents, occupancy_days, total_days, breakdowns) ==
    ResultRow(rid, unit, tenant,
              TotalCosts(unit, breakdowns, UnitManualEntries(unit, ents)),
              _calculate_prepayments(tenant, settlement.period_start,
                                     settlement.period_end),
              occupancy_days, total_days, breakdowns)

\* lines 93-122: one breakdown per category with invoices
UnitBreakdowns(rid, unit, tenant, costs, ents, occupancy_days, total_days) ==
    UnitCosts(rid, unit, tenant, costs, ents, occupancy_days, total_days,
              {CostBreakdown(unit, c, costs, occupancy_days, total_days) :
                   c \in DOMAIN costs.allocated_costs})

\* The SettlementResult row (with its breakdown rows) of one unit and tenant
\* (lines 80-167).
UnitResult(rid, unit, tenant, costs, ents) ==
    UnitBreakdowns(rid, unit, tenant, costs, ents,
        _calculate_occupancy_days(tenant, settlement.period_start,
                                  settlement.period_end),
        (settlement.period_end - settlement.period_start) + 1)

\* As old_results, without the filter on the settlement.
old_results_of_every_settlement(res) == res

\* the result rows of the settlement: the filter of lines 53-55 and 61-63
old_results(res) == {r \in res : r.settlement_id = ThisSettlement}

\* document id -> unit id of the result it is linked to (lines 49-58)
DocUnitMapping(res, docs) ==
    {<<p[1].id, p[2].unit_id>> :
        p \in {q \in docs \X res : q[1].settlement_result_id = q[2].id}}

\* As DeleteOldResults, with a foreign key that leaves the documents as
\* they are.
DeleteOldResults_keeping_reference(res, docs) == docs

\* The bulk DELETE of the settlement's results, seen from the documents:
\* the foreign key is ON DELETE SET NULL (lines 60-63).
DeleteOldResults(res, docs) ==
    {IF \E r \in res : r.id = d.settlement_result_id
     THEN [d EXCEPT !.settlement_result_id = NoResult]
     ELSE d : d \in docs}

\* unit_to_result (lines 66-67 and 178): the rows this calculation added
unit_to_result(rows) == {r \in rows : r.settlement_id = ThisSettlement}

\* As RelinkDocuments, with the loop of lines 180-187 left out.
RelinkDocuments_skipped(docs, mapping, new_results) == docs

\* Lines 180-187: every mapped document whose unit has a new result is
\* pointed at that result.
RelinkDocuments(docs, mapping, new_results) ==
    {IF \E m \in mapping, r \in new_results : m[1] = d.id /\ m[2] = r.unit_id
     THEN LET r == CHOOSE x \in new_results :
                      \E m \in mapping : m[1] = d.id /\ m[2] = x.unit_id
          IN  [d EXCEPT !.settlement_result_id = r.id]
     ELSE d : d \in docs}

\* uuid4: an id no stored result row carries
FreshId(used) == SetMin({i \in 1..MaxId : i \notin used})

RECURSIVE CalculateUnits(_, _, _, _, _)
\* The loop over the units (lines 69-178): todo are the units still to visit,
\* acc the rows added and flushed so far, used the ids that are taken.
CalculateUnits(todo, acc, used, costs, ents) ==
    IF todo = <<>> THEN [raised |-> FALSE, results |-> acc]
    ELSE IF _get_tenant_for_period(Head(todo), settlement.period_start,
                                   settlement.period_end).id = NULL
    THEN CalculateUnits(Tail(todo), acc, used, costs, ents)
    ELSE IF UnitRaises(Head(todo), costs, ents)
    THEN [raised |-> TRUE, results |-> acc]
    ELSE CalculateUnits(Tail(todo),
             acc \cup {UnitResult(FreshId(used), Head(todo),
                                  _get_tenant_for_period(Head(todo),
                                      settlement.period_start,
                                      settlement.period_end),
                                  costs, ents)},
             used \cup {FreshId(used)}, costs, ents)

\* what the session holds when calculate_settlement raises before any write
Untouched(exception) ==
    [raised |-> exception, committed |-> FALSE, results |-> results,
     documents |-> documents, status |-> settlement.status]

\* As AfterLoop, with a commit on the way out of a failed loop.
AfterLoop_committing_failure(loop, docs, doc_unit_mapping) ==
    IF loop.raised
    THEN [raised |-> "ArithmeticError", committed |-> TRUE,
          results |-> loop.results, documents |-> docs,
          status |-> settlement.status]
    ELSE [raised |-> "none", committed |-> TRUE,
          results |-> loop.results,
          documents |-> RelinkDocuments(docs, doc_unit_mapping,
                                       unit_to_result(loop.results)),
          status |-> "CALCULATED"]

\* As AfterLoop, with line 190 (the status assignment) left out.
AfterLoop_without_status(loop, docs, doc_unit_mapping) ==
    IF loop.raised
    THEN [raised |-> "ArithmeticError", committed |-> FALSE,
          results |-> loop.results, documents |-> docs,
          status |-> settlement.status]
    ELSE [raised |-> "none", committed |-> TRUE,
          results |-> loop.results,
          documents |-> RelinkDocuments(docs, doc_unit_mapping,
                                       unit_to_result(loop.results)),
          status |-> settlement.status]

\* Lines 180-193 once the loop is over: an exception of the loop leaves the
\* session with the deletion and the rows flushed so far; otherwise the
\* documents are relinked, the status is set and the session commits.
AfterLoop(loop, docs, doc_unit_mapping) ==
    IF loop.raised
    THEN [raised |-> "ArithmeticError", committed |-> FALSE,
          results |-> loop.results, documents |-> docs,
          status |-> settlement.status]
    ELSE [raised |-> "none", committed |-> TRUE,
          results |-> loop.results,
          documents |-> RelinkDocuments(docs, doc_unit_mapping,
                                       unit_to_result(loop.results)),
          status |-> "CALCULATED"]

\* Lines 41-58: what calculate_settlement has read before its first write.
ReadPhase(inv, ents) ==
    [reading |-> TRUE, invoices |-> inv, manual_entries |-> ents,
     doc_unit_mapping |-> DocUnitMapping(old_results(results), documents)]

\* Lines 60-191: the delete, the loop, the relinking and the commit, working
\* on what was read and on the rows that are stored when the delete runs.
WritePhase(read) ==
    AfterLoop(
        CalculateUnits(SelectSeq(UnitOrder, LAMBDA u : u \in DOMAIN units),
                       results \ old_results(results), {r.id : r \in results},
                       _get_costs_by_category(read.invoices),
                       read.manual_entries),
        DeleteOldResults(old_results(results), documents),
        read.doc_unit_mapping)

\* As calculate_settlement, with the bulk delete of lines 60-63 left out:
\* the new rows are added to the old ones.
calculate_settlement_keeping_old(inv, ents) ==
    IF ~settlement.exists THEN Untouched("ValueError")
    ELSE IF DOMAIN units = {} THEN Untouched("ValueError")
    ELSE AfterLoop(
             CalculateUnits(SelectSeq(UnitOrder, LAMBDA u : u \in DOMAIN units),
                            results, {r.id : r \in results},
                            _get_costs_by_category(inv), ents),
             documents,
             DocUnitMapping(old_results(results), documents))

\* As calculate_settlement, with the check of lines 38-39 left out.
calculate_settlement_without_unit_check(inv, ents) ==
    IF ~settlement.exists THEN Untouched("ValueError")
    ELSE AfterLoop(
             CalculateUnits(SelectSeq(UnitOrder, LAMBDA u : u \in DOMAIN units),
                            results \ old_results(results),
                            {r.id : r \in results},
                            _get_costs_by_category(inv), ents),
             DeleteOldResults(old_results(results), documents),
             DocUnitMapping(old_results(results), documents))

\* CalculationService.calculate_settlement over the invoices inv and manual
\* entries ents: the exception it raises ("none": it returned), whether it
\* reached db.commit(), and the rows its session holds at that point.
calculate_settlement(inv, ents) ==
    IF ~settlement.exists THEN Untouched("ValueError")
    ELSE IF DOMAIN units = {} THEN Untouched("ValueError")
    ELSE WritePhase(ReadPhase(inv, ents))

\* get_db closes the request's session when the handler is left: what the
\* session did not commit is rolled back.
SessionClose(out) ==
    IF out.committed THEN out
    ELSE [out EXCEPT !.results = results, !.documents = documents,
                     !.status = settlement.status]

\* ------------------------------------------------------------- handlers
\* the rows a handler leaves behind once its session is closed
Stores(seen) ==
    /\ results' = seen.results
    /\ documents' = seen.documents
    /\ settlement' = [settlement EXCEPT !.status = seen.status]

Leaves(out) == Stores(SessionClose(out))

\* no recalculation has read without having written
Idle == [reading |-> FALSE]

\* the request is served by handler in one piece; a recalculation in flight
\* keeps what it has read
Serves(handler) == request' = handler /\ in_flight' = in_flight

\* a request that is rejected with status code: nothing is written
Rejected(code) ==
    /\ response' = code
    /\ UNCHANGED <<settlement, total_area_sqm, units, tenants, allocations,
                   invoices, manual_entries, results, documents>>

\* _auto_recalculate (invoices.py 23-56, manual_entries.py 22-55): the result
\* dict, and the session as calculate_settlement left it; both except
\* clauses swallow the exception.
RecalculateResult(out) ==
    [calculated |-> out.raised = "none", error |-> out.raised, session |-> out]

\* As _auto_recalculate, without the call of calculate_settlement.
_auto_recalculate_skipped(inv, ents) ==
    RecalculateResult([Untouched("none") EXCEPT !.committed = TRUE])

_auto_recalculate(inv, ents) == RecalculateResult(calculate_settlement(inv, ents))

\* POST /settlements/{id}/calculate
calculate_settlement_route ==
    /\ Serves("calculate_settlement_route")
    /\ IF ~settlement.exists THEN Rejected(404)
       ELSE \E out \in {calculate_settlement(invoices, manual_entries)} :
                /\ Leaves(out)
                /\ response' = (CASE out.raised = "none" -> 200
                                  [] out.raised = "ValueError" -> 400
                                  [] OTHER -> 500)
                /\ UNCHANGED <<total_area_sqm, units, tenants, allocations,
                               invoices, manual_entries>>

\* POST /settlements/{id}/calculate while other requests are served: the
\* queries of lines 29-58 take no lock (no with_for_update), so what they
\* return is the committed state of that moment, and other requests commit
\* before the delete of line 60 runs.
begin_calculation ==
    /\ in_flight = Idle
    /\ settlement.exists
    /\ DOMAIN units # {}
    /\ in_flight' = ReadPhase(invoices, manual_entries)
    /\ UNCHANGED <<settlement, total_area_sqm, units, tenants, allocations,
                   invoices, manual_entries, results, documents, response,
                   request>>

\* the rest of that request: lines 60-191 on what was read, and the response
commit_calculation ==
    /\ in_flight # Idle
    /\ request' = "calculate_settlement_route"
    /\ in_flight' = Idle
    /\ \E out \in {WritePhase(in_flight)} :
           /\ Leaves(out)
           /\ response' = (CASE out.raised = "none" -> 200
                             [] out.raised = "ValueError" -> 400
                             [] OTHER -> 500)
    /\ UNCHANGED <<total_area_sqm, units, tenants, allocations, invoices,
                   manual_entries>>

\* POST /settlements/{id}/finalize
finalize_settlement ==
    /\ Serves("finalize_settlement")
    /\ IF ~settlement.exists THEN Rejected(404)
       ELSE IF settlement.status = "DRAFT" THEN Rejected(400)
       ELSE /\ settlement' = [settlement EXCEPT !.status = "FINALIZED"]
            /\ response' = 200
            /\ UNCHANGED <<total_area_sqm, units, tenants, allocations, invoices,
                           manual_entries, results, documents>>

\* POST /settlements
create_settlement(period_start, period_end) ==
    /\ Serves("create_settlement")
    /\ ~settlement.exists
    /\ IF period_start >= period_end THEN Rejected(400)
       ELSE /\ settlement' = [exists |-> TRUE, status |-> "DRAFT",
                              period_start |-> period_start,
                              period_end |-> period_end]
            /\ response' = 201
            /\ UNCHANGED <<total_area_sqm, units, tenants, allocations, invoices,
                           manual_entries, results, documents>>

\* setattr for every field of the update that was set
SetFields(row, update) ==
    [f \in DOMAIN row |-> IF f \in DOMAIN update THEN update[f] ELSE row[f]]

\* PUT /settlements/{id}
update_settlement(update) ==
    /\ Serves("update_settlement")
    /\ IF ~settlement.exists THEN Rejected(404)
       ELSE IF settlement.status = "FINALIZED" THEN Rejected(400)
       ELSE /\ settlement' = SetFields(settlement, update)
            /\ response' = 200
            /\ UNCHANGED <<total_area_sqm, units, tenants, allocations, invoices,
                           manual_entries, results, documents>>

NoSettlement == [exists |-> FALSE, status |-> "DRAFT", period_start |-> 1,
                 period_end |-> 1]

\* As delete_settlement, without the status check of lines 121-125.
delete_settlement_of_any_status ==
    /\ Serves("delete_settlement")
    /\ IF ~settlement.exists THEN Rejected(404)
       ELSE /\ settlement' = NoSettlement
            /\ invoices' = {}
            /\ manual_entries' = {}
            /\ documents' = {d \in documents : d.settlement_id # ThisSettlement}
            /\ results' = results \ old_results(results)
            /\ response' = 204
            /\ UNCHANGED <<total_area_sqm, units, tenants, allocations>>

\* DELETE /settlements/{id}; the settlement's invoices, manual entries,
\* documents and results go with it (cascade)
delete_settlement ==
    /\ Serves("delete_settlement")
    /\ IF ~settlement.exists THEN Rejected(404)
       ELSE IF settlement.status # "DRAFT" THEN Rejected(400)
       ELSE /\ settlement' = NoSettlement
            /\ invoices' = {}
            /\ manual_entries' = {}
            /\ documents' = {d \in documents : d.settlement_id # ThisSettlement}
            /\ results' = results \ old_results(results)
            /\ response' = 204
            /\ UNCHANGED <<total_area_sqm, units, tenants, allocations>>

\* PUT /properties/{id}
update_property(area) ==
    /\ Serves("update_property")
    /\ total_area_sqm' = area
    /\ response' = 200
    /\ UNCHANGED <<settlement, units, tenants, allocations, invoices,
                   manual_entries, results, documents>>

\* ---------------------------------------------------------- invoices.py
InvoiceOf(id) == CHOOSE i \in invoices : i.id = id

\* unit_id of a new invoice: taken from the result its document is linked to
\* when the request names a document and no unit (lines 162-174)
InvoiceUnit(unit_id, document_id) ==
    IF document_id # NULL /\ unit_id = NULL
       /\ \E d \in documents, r \in results :
              d.id = document_id /\ d.settlement_result_id = r.id
    THEN (CHOOSE r \in results : \E d \in documents :
              d.id = document_id /\ d.settlement_result_id = r.id).unit_id
    ELSE unit_id

\* POST /invoices
create_invoice(cost_category, total_amount, allocation_percentage, unit_id, document_id, line_items) ==
    /\ Serves("create_invoice")
    /\ \E id \in InvoiceIds : \A i \in invoices : i.id # id
    /\ IF ~settlement.exists THEN Rejected(404)
       ELSE IF settlement.status = "FINALIZED" THEN Rejected(400)
       ELSE LET id == CHOOSE x \in InvoiceIds : \A i \in invoices : i.id # x
                invoice_obj == [id |-> id,
                                cost_category |-> cost_category,
                                total_amount |-> total_amount,
                                allocation_percentage |-> allocation_percentage,
                                unit_id |-> InvoiceUnit(unit_id, document_id),
                                document_id |-> document_id,
                                is_verified |-> FALSE,
                                line_items |-> line_items]
                inv == invoices \cup {invoice_obj}
            IN  /\ invoices' = inv
                /\ Leaves(_auto_recalculate(inv, manual_entries).session)
                /\ response' = 201
                /\ UNCHANGED <<total_area_sqm, units, tenants, allocations,
                               manual_entries>>

\* PUT /invoices/{id}
update_invoice(id, update) ==
    /\ Serves("update_invoice")
    /\ IF \A i \in invoices : i.id # id THEN Rejected(404)
       ELSE IF settlement.status = "FINALIZED" THEN Rejected(400)
       ELSE LET inv == (invoices \ {InvoiceOf(id)})
                       \cup {SetFields(InvoiceOf(id), update)}
            IN  /\ invoices' = inv
                /\ Leaves(_auto_recalculate(inv, manual_entries).session)
                /\ response' = 200
                /\ UNCHANGED <<total_area_sqm, units, tenants, allocations,
                               manual_entries>>

\* DELETE /invoices/{id}
delete_invoice(id) ==
    /\ Serves("delete_invoice")
    /\ IF \A i \in invoices : i.id # id THEN Rejected(404)
       ELSE IF settlement.status = "FINALIZED" THEN Rejected(400)
       ELSE LET inv == invoices \ {InvoiceOf(id)}
            IN  /\ invoices' = inv
                /\ Leaves(_auto_recalculate(inv, manual_entries).session)
                /\ response' = 204
                /\ UNCHANGED <<total_area_sqm, units, tenants, allocations,
                               manual_entries>>

\* POST /invoices/{id}/verify
verify_invoice(id) ==
    /\ Serves("verify_invoice")
    /\ IF \A i \in invoices : i.id # id THEN Rejected(404)
       ELSE /\ invoices' = (invoices \ {InvoiceOf(id)})
                           \cup {[InvoiceOf(id) EXCEPT !.is_verified = TRUE]}
            /\ response' = 200
            /\ UNCHANGED <<settlement, total_area_sqm, units, tenants, allocations,
                           manual_entries, results, documents>>

\* POST /invoices/{id}/line-items
add_line_item(id, line_item) ==
    /\ Serves("add_line_item")
    /\ IF \A i \in invoices : i.id # id THEN Rejected(404)
       ELSE IF settlement.status = "FINALIZED" THEN Rejected(400)
       ELSE /\ line_item \notin InvoiceOf(id).line_items
            /\ invoices' = (invoices \ {InvoiceOf(id)})
                   \cup {[InvoiceOf(id) EXCEPT !.line_items = @ \cup {line_item}]}
            /\ response' = 201
            /\ UNCHANGED <<settlement, total_area_sqm, units, tenants, allocations,
                           manual_entries, results, documents>>

\* DELETE /invoices/line-items/{line_item_id}
delete_line_item(line_item) ==
    /\ Serves("delete_line_item")
    /\ IF \A i \in invoices : line_item \notin i.line_items THEN Rejected(404)
       ELSE IF settlement.status = "FINALIZED" THEN Rejected(400)
       ELSE /\ invoices' = {[i EXCEPT !.line_items = @ \ {line_item}] : i \in invoices}
            /\ response' = 204
            /\ UNCHANGED <<settlement, total_area_sqm, units, tenants, allocations,
                           manual_entries, results, documents>>

\* ----------------------------------------------------- manual_entries.py
EntryOf(id) == CHOOSE e \in manual_entries : e.id = id

\* POST /manual-entries
create_manual_entry(unit_id, amount) ==
    /\ Serves("create_manual_entry")
    /\ \E id \in EntryIds : \A e \in manual_entries : e.id # id
    /\ IF ~settlement.exists THEN Rejected(404)
       ELSE IF settlement.status = "FINALIZED" THEN Rejected(400)
       ELSE IF unit_id # NULL /\ unit_id \notin DOMAIN units THEN Rejected(404)
       ELSE LET id == CHOOSE x \in EntryIds : \A e \in manual_entries : e.id # x
                ents == manual_entries
                        \cup {[id |-> id, unit_id |-> unit_id, amount |-> amount]}
            IN  /\ manual_entries' = ents
                /\ Leaves(_auto_recalculate(invoices, ents).session)
                /\ response' = 201
                /\ UNCHANGED <<total_area_sqm, units, tenants, allocations,
                               invoices>>

\* PUT /manual-entries/{id}
update_manual_entry(id, update) ==
    /\ Serves("update_manual_entry")
    /\ IF \A e \in manual_entries : e.id # id THEN Rejected(404)
       ELSE IF settlement.status = "FINALIZED" THEN Rejected(400)
       ELSE LET ents == (manual_entries \ {EntryOf(id)})
                        \cup {SetFields(EntryOf(id), update)}
            IN  /\ manual_entries' = ents
                /\ Leaves(_auto_recalculate(invoices, ents).session)
                /\ response' = 200
                /\ UNCHANGED <<total_area_sqm, units, tenants, allocations, invoices>>

\* DELETE /manual-entries/{id}
delete_manual_entry(id) ==
    /\ Serves("delete_manual_entry")
    /\ IF \A e \in manual_entries : e.id # id THEN Rejected(404)
       ELSE IF settlement.status = "FINALIZED" THEN Rejected(400)
       ELSE LET ents == manual_entries \ {EntryOf(id)}
            IN  /\ manual_entries' = ents
                /\ Leaves(_auto_recalculate(invoices, ents).session)
                /\ response' = 204
                /\ UNCHANGED <<total_area_sqm, units, tenants, allocations, invoices>>

\* ------------------------------------------------------------ documents.py
\* DELETE /documents/{id}; invoices.document_id is ON DELETE SET NULL
delete_document(document_id) ==
    /\ Serves("delete_document")
    /\ IF \A d \in documents : d.id # document_id THEN Rejected(404)
       ELSE /\ documents' = {d \in documents : d.id # document_id}
            /\ invoices' = {IF i.document_id = document_id
                            THEN [i EXCEPT !.document_id = NULL]
                            ELSE i : i \in invoices}
            /\ response' = 204
            /\ UNCHANGED <<settlement, total_area_sqm, units, tenants,
                           allocations, manual_entries, results>>

\* ---------------------------------------------------- unit_settlements.py
\* POST /unit-settlements/{id}/documents; valid_file: the extension and size
\* checks of lines 169-184 pass
upload_unit_settlement_document(unit_settlement_id, valid_file) ==
    /\ Serves("upload_unit_settlement_document")
    /\ \E id \in DocIds : \A d \in documents : d.id # id
    /\ IF \A r \in results : r.id # unit_settlement_id THEN Rejected(404)
       ELSE IF settlement.exists /\ settlement.status = "FINALIZED"
       THEN Rejected(400)
       ELSE IF ~valid_file THEN Rejected(400)
       ELSE /\ documents' = documents \cup
                  {[id |-> CHOOSE x \in DocIds : \A d \in documents : d.id # x,
                    settlement_id |->
                        (CHOOSE r \in results : r.id = unit_settlement_id).settlement_id,
                    settlement_result_id |-> unit_settlement_id]}
            /\ response' = 201
            /\ UNCHANGED <<settlement, total_area_sqm, units, tenants,
                           allocations, invoices, manual_entries, results>>

\* PATCH /unit-settlements/{id}; notes: the notes of the UnitSettlementUpdate,
\* NULL when the request names none
update_unit_settlement(unit_settlement_id, notes) ==
    /\ Serves("update_unit_settlement")
    /\ IF \A r \in results : r.id # unit_settlement_id THEN Rejected(404)
       ELSE IF settlement.exists /\ settlement.status = "FINALIZED"
       THEN Rejected(400)
       ELSE /\ results' = {IF r.id = unit_settlement_id /\ notes # NULL
                           THEN [r EXCEPT !.notes = notes]
                           ELSE r : r \in results}
            /\ response' = 200
            /\ UNCHANGED <<settlement, total_area_sqm, units, tenants,
                           allocations, invoices, manual_entries, documents>>

\* ------------------------------------------------------ the stored data
\* Two flats of 100 m2 each.  U1 is let from day 3 on.  U2 is promised to a
\* tenant who moves in after the last day, was let on day 3 only and is let
\* again from day 4 on.
TwoUnits == [u \in UnitIds |-> 100]
NoUnits == [u \in {} |-> 100]

Tenancies ==
    [u \in UnitIds |->
        IF u = "U1"
        THEN <<[id |-> "T1", move_in_date |-> 3, move_out_date |-> NoDate,
                monthly_prepayment |-> 10000]>>
        ELSE <<[id |-> "T4", move_in_date |-> MaxDay + 1, move_out_date |-> NoDate,
                monthly_prepayment |-> 10000],
               [id |-> "T2", move_in_date |-> 3, move_out_date |-> 3,
                monthly_prepayment |-> NoAmount],
               [id |-> "T3", move_in_date |-> 4, move_out_date |-> NoDate,
                monthly_prepayment |-> 10000]>>]

\* U1 pays 60 % of the heating by consumption
HeatingByConsumption ==
    [unit_id |-> "U1", cost_category |-> "HEIZUNG",
     allocation_percentage |-> 6000, allocation_method |-> "VERBRAUCH"]

\* the whole calendar, the days before anybody moved in, and the days after
\* the first tenant of U2 moved out
PeriodChoices == {<<1, MaxDay>>, <<1, 2>>, <<4, MaxDay>>}
\* a period that ends before it starts
BadPeriod == <<MaxDay, 1>>
TotalAreas == {0, 200}

SettlementUpdates ==
    {[period_start |-> p[1], period_end |-> p[2]] : p \in PeriodChoices}
    \cup {[status |-> s] : s \in Statuses}
\* the invoice becomes a water invoice of which half is allocated
InvoiceUpdates ==
    {[cost_category |-> "WASSERVERSORGUNG", allocation_percentage |-> 5000]}
\* the entry becomes an entry of U1 alone
EntryUpdates == {[unit_id |-> "U1", amount |-> 2501]}

Init ==
    /\ settlement = [exists |-> TRUE, status |-> "DRAFT", period_start |-> 1,
                     period_end |-> MaxDay]
    /\ total_area_sqm = 200
    /\ units \in {NoUnits, TwoUnits}
    /\ tenants = Tenancies
    /\ allocations = {HeatingByConsumption}
    /\ invoices = {}
    /\ manual_entries = {}
    /\ results = {}
    /\ documents = {}
    /\ response = 0
    /\ request = "none"
    /\ in_flight = Idle

Next ==
    \/ calculate_settlement_route
    \/ finalize_settlement
    \/ \E p \in PeriodChoices \cup {BadPeriod} : create_settlement(p[1], p[2])
    \/ \E u \in SettlementUpdates : update_settlement(u)
    \/ delete_settlement
    \/ \E a \in TotalAreas : update_property(a)
    \/ create_invoice("HEIZUNG", 120000, NoAmount, NULL, NULL, {})
    \/ \E id \in InvoiceIds, u \in InvoiceUpdates : update_invoice(id, u)
    \/ \E id \in InvoiceIds : delete_invoice(id)
    \/ create_manual_entry(NULL, -5000)
    \/ \E id \in EntryIds, u \in EntryUpdates : update_manual_entry(id, u)
    \/ \E id \in EntryIds : delete_manual_entry(id)
    \/ \E rid \in 1..MaxId, v \in BOOLEAN : upload_unit_settlement_document(rid, v)

Spec == Init /\ [][Next]_vars

\* The invoice endpoints that leave the results alone, with the requests
\* that lead to a finalized settlement holding an invoice.
LineItems == {"L1"}

NextEdit ==
    \/ calculate_settlement_route
    \/ finalize_settlement
    \/ \E u \in SettlementUpdates : update_settlement(u)
    \/ create_invoice("HEIZUNG", 120000, NoAmount, NULL, NULL, {})
    \/ \E id \in InvoiceIds, u \in InvoiceUpdates : update_invoice(id, u)
    \/ \E id \in InvoiceIds : delete_invoice(id)
    \/ \E id \in InvoiceIds : verify_invoice(id)
    \/ \E id \in InvoiceIds, l \in LineItems : add_line_item(id, l)
    \/ \E l \in LineItems : delete_line_item(l)
    \/ create_manual_entry(NULL, -5000)
    \/ \E id \in EntryIds, u \in EntryUpdates : update_manual_entry(id, u)
    \/ \E id \in EntryIds : delete_manual_entry(id)

SpecEdit == Init /\ [][NextEdit]_vars

\* The requests on the unit settlements of a settlement that is calculated,
\* edited and finalized.
NotesChoices == {NULL, "Zaehlerstand geprueft"}

NextUnit ==
    \/ calculate_settlement_route
    \/ finalize_settlement
    \/ create_invoice("HEIZUNG", 120000, NoAmount, NULL, NULL, {})
    \/ \E id \in InvoiceIds : delete_invoice(id)
    \/ \E rid \in 1..MaxId, n \in NotesChoices : update_unit_settlement(rid, n)
    \/ \E rid \in 1..MaxId, v \in BOOLEAN : upload_unit_settlement_document(rid, v)

SpecUnit == Init /\ [][NextUnit]_vars

\* The property has a second settlement, calculated before, with a result for
\* U1 and a document linked to it; the requests name the first settlement.
OtherResults ==
    {[id |-> MaxId + 1, settlement_id |-> OtherSettlement, unit_id |-> "U1",
      tenant_id |-> "T1", total_costs |-> 60000, total_prepayments |-> 50000,
      balance |-> 10000, occupancy_days |-> MaxDay, total_days |-> MaxDay,
      notes |-> NULL, cost_breakdowns |-> {}]}

OtherDocuments ==
    {[id |-> "D2", settlement_id |-> OtherSettlement,
      settlement_result_id |-> MaxId + 1]}

InitTwo ==
    /\ settlement = [exists |-> TRUE, status |-> "DRAFT", period_start |-> 1,
                     period_end |-> MaxDay]
    /\ total_area_sqm = 200
    /\ units \in {NoUnits, TwoUnits}
    /\ tenants = Tenancies
    /\ allocations = {HeatingByConsumption}
    /\ invoices = {}
    /\ manual_entries = {}
    /\ results = OtherResults
    /\ documents = OtherDocuments
    /\ response = 0
    /\ request = "none"
    /\ in_flight = Idle

NextTwo ==
    \/ calculate_settlement_route
    \/ \E a \in TotalAreas : update_property(a)
    \/ \E id \in DocIds \cup {d.id : d \in OtherDocuments} : delete_document(id)
    \/ \E u \in SettlementUpdates : update_settlement(u)
    \/ create_invoice("HEIZUNG", 120000, NoAmount, NULL, NULL, {})
    \/ \E id \in InvoiceIds : delete_invoice(id)
    \/ \E rid \in 1..MaxId, v \in BOOLEAN : upload_unit_settlement_document(rid, v)

SpecTwo == InitTwo /\ [][NextTwo]_vars

\* The settlement is created, its period and status are changed field by
\* field, it is given an invoice, a manual entry and a document, it is
\* calculated and deleted.
PeriodUpdates ==
    SettlementUpdates
    \cup {[period_start |-> MaxDay], [period_end |-> 1],
          [period_start |-> 2, period_end |-> 2]}

NextPeriod ==
    \/ calculate_settlement_route
    \/ \E p \in PeriodChoices \cup {BadPeriod} : create_settlement(p[1], p[2])
    \/ \E u \in PeriodUpdates : update_settlement(u)
    \/ delete_settlement
    \/ create_invoice("HEIZUNG", 120000, NoAmount, NULL, NULL, {})
    \/ create_manual_entry(NULL, -5000)
    \/ \E rid \in 1..MaxId, v \in BOOLEAN : upload_unit_settlement_document(rid, v)

SpecPeriod == Init /\ [][NextPeriod]_vars

\* A recalculation served next to uploads, invoice requests and other
\* recalculations.
NextRace ==
    \/ calculate_settlement_route
    \/ begin_calculation
    \/ commit_calculation
    \/ create_invoice("HEIZUNG", 120000, NoAmount, NULL, NULL, {})
    \/ \E id \in InvoiceIds : delete_invoice(id)
    \/ \E rid \in 1..MaxId, v \in BOOLEAN : upload_unit_settlement_document(rid, v)

SpecRace == Init /\ [][NextRace]_vars

\* ------------------------------------------------- one calculation
\* A settlement over the 30 days 11..40 of a property of 200 m2 with two
\* flats of 100 m2, calculated once for each choice of tenants, invoices,
\* unit allocations and manual entries.
BillingPeriod == <<11, 40>>

\* the tenant of U1: moved in before, at the start of, in the middle of, on
\* the last day of or after the period; not moved out, or moved out before,
\* on the first day of, in the middle of, at the end of or after the period;
\* with or without prepayments
FirstTenants ==
    {[id |-> "T1", move_in_date |-> i, move_out_date |-> o,
      monthly_prepayment |-> p] :
        i \in {1, 11, 26, 40, 41}, o \in {NoDate, 5, 11, 25, 40, 50},
        p \in {NoAmount, 101467}}

\* the tenant of U2: there for the whole period, or not yet moved in
SecondTenants ==
    {[id |-> "T2", move_in_date |-> i, move_out_date |-> NoDate,
      monthly_prepayment |-> 101467] : i \in {1, 41}}

\* two heating invoices and a water invoice of the settlement, and a water
\* invoice that names U1
InvoiceFile ==
    {[id |-> "I1", cost_category |-> "HEIZUNG", total_amount |-> 120000,
      allocation_percentage |-> NoAmount, unit_id |-> NULL,
      document_id |-> NULL, is_verified |-> FALSE, line_items |-> {}],
     [id |-> "I2", cost_category |-> "HEIZUNG", total_amount |-> 80000,
      allocation_percentage |-> NoAmount, unit_id |-> NULL,
      document_id |-> NULL, is_verified |-> FALSE, line_items |-> {}],
     [id |-> "I3", cost_category |-> "WASSERVERSORGUNG", total_amount |-> 10001,
      allocation_percentage |-> NoAmount, unit_id |-> NULL,
      document_id |-> NULL, is_verified |-> FALSE, line_items |-> {}],
     [id |-> "I4", cost_category |-> "WASSERVERSORGUNG", total_amount |-> 60000,
      allocation_percentage |-> NoAmount, unit_id |-> "U1",
      document_id |-> NULL, is_verified |-> FALSE, line_items |-> {}]}

\* heating by consumption: 60 % for U1, 40 % for U2
SixtyForty ==
    {[unit_id |-> "U1", cost_category |-> "HEIZUNG",
      allocation_percentage |-> 6000, allocation_method |-> "VERBRAUCH"],
     [unit_id |-> "U2", cost_category |-> "HEIZUNG",
      allocation_percentage |-> 4000, allocation_method |-> "VERBRAUCH"]}

\* a charge of 50.00 for the whole house
HouseCharge == {[id |-> "M1", unit_id |-> NULL, amount |-> 5000]}

InitCalc ==
    /\ settlement = [exists |-> TRUE, status |-> "DRAFT",
                     period_start |-> BillingPeriod[1],
                     period_end |-> BillingPeriod[2]]
    /\ total_area_sqm = 200
    /\ units = TwoUnits
    /\ tenants \in {[u \in UnitIds |-> IF u = "U1" THEN <<a>> ELSE <<b>>] :
                       a \in FirstTenants, b \in SecondTenants}
    /\ allocations \in {{}, SixtyForty, {HeatingByConsumption}}
    /\ invoices \in SUBSET InvoiceFile
    /\ manual_entries \in {{}, HouseCharge}
    /\ results = {}
    /\ documents = {}
    /\ response = 0
    /\ request = "none"
    /\ in_flight = Idle

NextCalc == calculate_settlement_route

SpecCalc == InitCalc /\ [][NextCalc]_vars

\* ------------------------------------------- invoices with percentages
\* Heating invoices that count entirely, by half and not at all; a water
\* invoice that counts entirely and two credit notes, one that does not
\* count and one larger than the invoice.
CostFile ==
    {[id |-> "K1", cost_category |-> "HEIZUNG", total_amount |-> 120000,
      allocation_percentage |-> NoAmount, unit_id |-> NULL,
      document_id |-> NULL, is_verified |-> FALSE, line_items |-> {}],
     [id |-> "K2", cost_category |-> "HEIZUNG", total_amount |-> 80000,
      allocation_percentage |-> 5000, unit_id |-> NULL,
      document_id |-> NULL, is_verified |-> FALSE, line_items |-> {}],
     [id |-> "K3", cost_category |-> "HEIZUNG", total_amount |-> 40000,
      allocation_percentage |-> 0, unit_id |-> NULL,
      document_id |-> NULL, is_verified |-> FALSE, line_items |-> {}],
     [id |-> "K4", cost_category |-> "WASSERVERSORGUNG", total_amount |-> 10000,
      allocation_percentage |-> 10000, unit_id |-> NULL,
      document_id |-> NULL, is_verified |-> FALSE, line_items |-> {}],
     [id |-> "K5", cost_category |-> "WASSERVERSORGUNG", total_amount |-> -8000,
      allocation_percentage |-> 0, unit_id |-> NULL,
      document_id |-> NULL, is_verified |-> FALSE, line_items |-> {}],
     [id |-> "K6", cost_category |-> "WASSERVERSORGUNG", total_amount |-> -20000,
      allocation_percentage |-> NoAmount, unit_id |-> NULL,
      document_id |-> NULL, is_verified |-> FALSE, line_items |-> {}]}

\* U1 is let for the whole period or from day 26 on, U2 for the whole period
CostTenants ==
    {[u \in UnitIds |->
         IF u = "U1"
         THEN <<[id |-> "T1", move_in_date |-> i, move_out_date |-> NoDate,
                 monthly_prepayment |-> NoAmount]>>
         ELSE <<[id |-> "T2", move_in_date |-> 1, move_out_date |-> NoDate,
                 monthly_prepayment |-> NoAmount]>>] : i \in {1, 26}}

InitCosts ==
    /\ settlement = [exists |-> TRUE, status |-> "DRAFT",
                     period_start |-> BillingPeriod[1],
                     period_end |-> BillingPeriod[2]]
    /\ total_area_sqm = 200
    /\ units = TwoUnits
    /\ tenants \in CostTenants
    /\ allocations \in {{}, {HeatingByConsumption}}
    /\ invoices \in SUBSET CostFile
    /\ manual_entries = {}
    /\ results = {}
    /\ documents = {}
    /\ response = 0
    /\ request = "none"
    /\ in_flight = Idle

NextCosts == calculate_settlement_route

SpecCosts == InitCosts /\ [][NextCosts]_vars

\* ------------------------------------------------------ manual entries
\* A charge and a credit of 50.01 for the whole house, a charge of 25.01 for
\* U1 and a credit of 7.00 for U2.
EntryFile ==
    {[id |-> "E1", unit_id |-> NULL, amount |-> 5001],
     [id |-> "E2", unit_id |-> NULL, amount |-> -5001],
     [id |-> "E3", unit_id |-> "U1", amount |-> 2501],
     [id |-> "E4", unit_id |-> "U2", amount |-> -700]}

InitEntries ==
    /\ settlement = [exists |-> TRUE, status |-> "DRAFT",
                     period_start |-> BillingPeriod[1],
                     period_end |-> BillingPeriod[2]]
    /\ total_area_sqm = 200
    /\ units = TwoUnits
    /\ tenants \in CostTenants
    /\ allocations = {}
    /\ invoices \in SUBSET {i \in CostFile : i.id = "K1"}
    /\ manual_entries \in SUBSET EntryFile
    /\ results = {}
    /\ documents = {}
    /\ response = 0
    /\ request = "none"
    /\ in_flight = Idle

NextEntries == calculate_settlement_route

SpecEntries == InitEntries /\ [][NextEntries]_vars

\* ------------------------------------------------------------ properties
\* the handlers that run calculate_settlement
CrudHandlers ==
    {"create_invoice", "update_invoice", "delete_invoice",
     "create_manual_entry", "update_manual_entry", "delete_manual_entry"}
RecalculatingHandlers == CrudHandlers \cup {"calculate_settlement_route"}
Accepted == {200, 201, 204}

\* the step served a request whose recalculation went through
SuccessfulRecalculation ==
    /\ request' \in RecalculatingHandlers
    /\ response' \in Accepted
    /\ calculate_settlement(invoices', manual_entries').raised = "none"

\* the step served a request whose recalculation failed after the delete
FailedRecalculation ==
    /\ request' \in RecalculatingHandlers
    /\ calculate_settlement(invoices', manual_entries').raised = "ArithmeticError"

Finalized == settlement.exists /\ settlement.status = "FINALIZED"

\* the tenant test in the words of the specification
Overlaps(tenant) ==
    /\ tenant.move_in_date <= settlement.period_end
    /\ (tenant.move_out_date = NoDate
        \/ tenant.move_out_date >= settlement.period_start)

OverlappingTenants(unit) ==
    {i \in 1..Len(tenants[unit]) : Overlaps(tenants[unit][i])}

NoQualifyingTenant ==
    /\ settlement.exists
    /\ DOMAIN units # {}
    /\ \A u \in DOMAIN units : OverlappingTenants(u) = {}

\* result rows without their surrogate ids
Values(res) == {[r EXCEPT !.id = NoResult] : r \in res}

\* C1: a calculate request on a FINALIZED settlement changes neither the
\* status nor the result rows.
C1_FinalizedIsNotRecalculated ==
    [][(Finalized /\ request' = "calculate_settlement_route")
        => (settlement'.status = "FINALIZED" /\ results' = results)]_vars

\* C2: with units but no qualifying tenant, the calculate request is refused
\* as a user-correctable error and the stored results and status are kept.
C2_NoQualifyingTenantIsAnError ==
    [][(NoQualifyingTenant /\ request' = "calculate_settlement_route")
        => (/\ response' = 400
            /\ results' = results
            /\ settlement'.status = settlement.status)]_vars

\* C3: a recalculation that fails after the delete, swallowed or not, leaves
\* the committed results, breakdowns, document links and status as they were.
C3_RecalculationIsAllOrNothing ==
    [][FailedRecalculation
        => (/\ results' = results
            /\ documents' = documents
            /\ settlement'.status = settlement.status)]_vars

\* C3 is reached: the explicit request failed at U2, after the row of U1 was
\* flushed, and the old rows are still there.
C3_Witness ==
    /\ request = "calculate_settlement_route"
    /\ response = 500
    /\ results # {}
    /\ \E i \in invoices : i.cost_category = "HEIZUNG"
    /\ \A e \in manual_entries : e.unit_id # NULL
    /\ total_area_sqm = 0

\* C4: after a successful recalculation every document that was linked to the
\* result of a unit is linked to the new result of that unit, if it has one.
C4_DocumentsFollowTheirUnit ==
    [][SuccessfulRecalculation
        => \A d \in documents, r \in results :
               d.settlement_result_id = r.id
               => \A n \in results' :
                      n.unit_id = r.unit_id
                      => /\ n.id # r.id
                         /\ \E e \in documents' :
                                e.id = d.id /\ e.settlement_result_id = n.id]_vars

\* C4 is reached: the last request recalculated, and the document uploaded
\* before it points at a result of the new snapshot.
C4_Witness ==
    /\ request \in RecalculatingHandlers
    /\ response \in Accepted
    /\ settlement.status = "CALCULATED"
    /\ \E d \in documents, r \in results : d.settlement_result_id = r.id

\* C5: calculating again right after a successful calculation gives the same
\* rows and breakdowns up to the ids, and the same document-to-unit links.
C5_RecalculationIsIdempotent ==
    (request = "calculate_settlement_route" /\ response = 200)
    => /\ calculate_settlement(invoices, manual_entries).raised = "none"
       /\ Values(calculate_settlement(invoices, manual_entries).results)
              = Values(results)
       /\ Cardinality(calculate_settlement(invoices, manual_entries).results)
              = Cardinality(results)
       /\ DocUnitMapping(
              calculate_settlement(invoices, manual_entries).results,
              calculate_settlement(invoices, manual_entries).documents)
              = DocUnitMapping(results, documents)

\* C5 is reached: a calculation went through for both units, with costs and
\* a linked document, and the next one starts from its rows.
C5_Witness ==
    /\ request = "calculate_settlement_route"
    /\ response = 200
    /\ Cardinality(results) = 2
    /\ \E r \in results : r.cost_breakdowns # {}
    /\ DocUnitMapping(results, documents) # {}

C7_FirstQualifyingTenant ==
    [][SuccessfulRecalculation
        => \A u \in DOMAIN units :
               /\ (\E r \in results' : r.unit_id = u)
                      <=> OverlappingTenants(u) # {}
               /\ \A r \in results' :
                      r.unit_id = u
                      => r.tenant_id
                             = tenants[u][SetMin(OverlappingTenants(u))].id]_vars

\* C7 is reached: U2 is settled with T2, the second tenant of its list; the
\* first one does not overlap, the third one does.
C7_Witness ==
    /\ request = "calculate_settlement_route"
    /\ response = 200
    /\ OverlappingTenants("U2") = {2, 3}
    /\ \E r \in results : r.unit_id = "U2" /\ r.tenant_id = "T2"

\* the change a CRUD request makes to the invoices and manual entries
CrudChange ==
    /\ Serves("create_invoice")
           => Cardinality(invoices') = Cardinality(invoices) + 1
    /\ Serves("delete_invoice")
           => Cardinality(invoices') = Cardinality(invoices) - 1
    /\ Serves("update_invoice")
           => /\ Cardinality(invoices') = Cardinality(invoices)
              /\ \A i \in invoices' : \E u \in InvoiceUpdates :
                     \A f \in DOMAIN u : i[f] = u[f]
    /\ Serves("create_manual_entry")
           => Cardinality(manual_entries') = Cardinality(manual_entries) + 1
    /\ Serves("delete_manual_entry")
           => Cardinality(manual_entries') = Cardinality(manual_entries) - 1
    /\ Serves("update_manual_entry")
           => /\ Cardinality(manual_entries') = Cardinality(manual_entries)
              /\ \A e \in manual_entries' : \E u \in EntryUpdates :
                     \A f \in DOMAIN u : e[f] = u[f]

\* the row an update or delete request names is there
TargetExists ==
    /\ request' \in {"update_invoice", "delete_invoice"} => invoices # {}
    /\ request' \in {"update_manual_entry", "delete_manual_entry"}
           => manual_entries # {}

\* C8: a create, update or delete of an invoice or manual entry of a
\* non-finalized settlement is accepted, its change is stored, and
\* calculate_settlement has run on the changed rows: its outcome is stored
\* when it went through, and nothing of it when it failed.
C8_CrudRecalculates ==
    [][(request' \in CrudHandlers /\ settlement.exists /\ ~Finalized
        /\ TargetExists)
        => (/\ response' \in Accepted
            /\ CrudChange
            /\ IF calculate_settlement(invoices', manual_entries').raised = "none"
               THEN /\ results'
                        = calculate_settlement(invoices', manual_entries').results
                    /\ documents'
                        = calculate_settlement(invoices', manual_entries').documents
                    /\ settlement'.status = "CALCULATED"
               ELSE /\ results' = results
                    /\ documents' = documents
                    /\ settlement'.status = settlement.status)]_vars

\* C8 is reached: the invoice was created and is stored, although the
\* recalculation it triggered failed; the older results are still there.
C8_Witness ==
    /\ request = "create_invoice"
    /\ response = 201
    /\ invoices # {}
    /\ results # {}
    /\ calculate_settlement(invoices, manual_entries).raised = "ArithmeticError"

\* C9: without a settlement or without units calculate_settlement raises
\* ValueError before it writes, and the calculate request is rejected.
C9_NothingToCalculate ==
    [][(request' = "calculate_settlement_route"
        /\ (~settlement.exists \/ DOMAIN units = {}))
        => (/\ calculate_settlement(invoices, manual_entries).raised = "ValueError"
            /\ ~calculate_settlement(invoices, manual_entries).committed
            /\ response' = IF settlement.exists THEN 400 ELSE 404
            /\ results' = results
            /\ documents' = documents
            /\ settlement' = settlement)]_vars

\* C9 is reached: the calculate request for a property without units was
\* rejected and the settlement is not CALCULATED.
C9_Witness ==
    /\ request = "calculate_settlement_route"
    /\ response = 400
    /\ settlement.exists
    /\ DOMAIN units = {}
    /\ settlement.status = "DRAFT"

\* the endpoints that edit invoices, line items, manual entries or the
\* settlement itself
EditHandlers ==
    CrudHandlers \cup {"verify_invoice", "add_line_item", "delete_line_item",
                       "update_settlement"}

\* C10: every edit request on a FINALIZED settlement is rejected and leaves
\* the invoices, manual entries, settlement fields and results unchanged.
C10_FinalizedIsNotEdited ==
    [][(Finalized /\ request' \in EditHandlers)
        => (/\ response' \in {400, 404}
            /\ invoices' = invoices
            /\ manual_entries' = manual_entries
            /\ settlement' = settlement
            /\ results' = results)]_vars

\* C11: the status changes only along DRAFT -> CALCULATED, by a successful
\* calculation, and CALCULATED -> FINALIZED, by finalize; no request of the
\* settlement endpoints, update_settlement included, moves it otherwise.
C11_StatusFollowsTheStateMachine ==
    [][(settlement.exists /\ settlement'.exists
        /\ settlement'.status # settlement.status)
        => \/ /\ settlement.status = "DRAFT"
              /\ settlement'.status = "CALCULATED"
              /\ SuccessfulRecalculation
           \/ /\ settlement.status = "CALCULATED"
              /\ settlement'.status = "FINALIZED"
              /\ request' = "finalize_settlement"]_vars

\* C12: every stored result has balance = total_costs - total_prepayments;
\* a positive balance is owed by the tenant, a negative one is refunded.
C12_BalanceIsCostsMinusPrepayments ==
    \A r \in results : r.balance = r.total_costs - r.total_prepayments

\* C12 is reached: costs of 1200.00 against prepayments of 1000.00 leave
\* 200.00 to pay for U1, costs of 800.00 give U2 a refund of 200.00.
C12_Witness ==
    /\ \E r \in results :
           /\ r.unit_id = "U1"
           /\ r.total_costs = 120000
           /\ r.total_prepayments = 100000
           /\ r.balance = 20000
    /\ \E r \in results :
           /\ r.unit_id = "U2"
           /\ r.total_costs = 80000
           /\ r.total_prepayments = 100000
           /\ r.balance = -20000

\* k is r rounded to a whole number of cents, a half going away from zero
IsRoundedHalfUp(k, r) ==
    IF r.n >= 0
    THEN 2 * (k * r.d - r.n) <= r.d /\ 2 * (r.n - k * r.d) < r.d
    ELSE 2 * (r.n - k * r.d) <= r.d /\ 2 * (k * r.d - r.n) < r.d

\* the part of the period a result is charged for
TimeShare(r) ==
    IF r.occupancy_days < r.total_days
    THEN Rat(r.occupancy_days, r.total_days) ELSE RInt(1)

\* C13: for every result and every category with invoices there is one
\* breakdown, and its allocated_amount is the category's allocated total
\* times the unit's percentage, times occupancy_days / total_days exactly
\* when the occupancy is shorter than the period, rounded half up to cents.
C13_AllocatedAmount ==
    \A r \in results : \A c \in {i.cost_category : i \in invoices} :
        /\ Cardinality({b \in r.cost_breakdowns : b.cost_category = c}) = 1
        /\ \A b \in r.cost_breakdowns :
               b.cost_category = c
               => IsRoundedHalfUp(b.allocated_amount,
                      RMul(RMul(_get_costs_by_category(invoices).allocated_costs[c],
                                _get_allocation(r.unit_id, c).percentage),
                           TimeShare(r)))

\* C13 is reached: 1200.00 of heating over two flats of 100 m2 in 200 m2;
\* U1, occupied for 15 of the 30 days, is charged 300.00 and U2 600.00.
C13_Witness ==
    /\ {i.id : i \in invoices} = {"I1"}
    /\ allocations = {}
    /\ \E r \in results :
           /\ r.unit_id = "U1"
           /\ r.occupancy_days = 15
           /\ r.total_days = 30
           /\ \E b \in r.cost_breakdowns :
                  b.cost_category = "HEIZUNG" /\ b.allocated_amount = 30000
    /\ \E r \in results :
           /\ r.unit_id = "U2"
           /\ r.occupancy_days = 30
           /\ \E b \in r.cost_breakdowns :
                  b.cost_category = "HEIZUNG" /\ b.allocated_amount = 60000

\* what the results charge for a category, all units together
ChargedForCategory(c) ==
    ISum([r \in results |->
             ISum([b \in {x \in r.cost_breakdowns : x.cost_category = c} |->
                      b.allocated_amount],
                  {x \in r.cost_breakdowns : x.cost_category = c})],
         results)

\* the charge for c is within half a cent per unit of the allocated total
Conserved(c, total) ==
    /\ 2 * (ChargedForCategory(c) * total.d - total.n)
           <= Cardinality(DOMAIN units) * total.d
    /\ 2 * (total.n - ChargedForCategory(c) * total.d)
           <= Cardinality(DOMAIN units) * total.d

NoOverrides(c) == \A a \in allocations : a.cost_category # c

JustCalculated == request = "calculate_settlement_route" /\ response = 200

\* every unit is settled for the whole period and the flats make up the
\* whole area of the property
FullyLet ==
    /\ \A u \in DOMAIN units : \E r \in results :
           r.unit_id = u /\ r.occupancy_days = r.total_days
    /\ ISum(units, DOMAIN units) = total_area_sqm

\* C14 as stated: after a calculation, for a category without per-unit
\* overrides, the amounts charged to the units add up to the category's
\* allocated total, within 0.005 per unit.
C14_Conservation ==
    JustCalculated
    => \A c \in {i.cost_category : i \in invoices} :
           NoOverrides(c)
           => Conserved(c, _get_costs_by_category(invoices).allocated_costs[c])

\* C14 amended: the same, when every unit is settled for the whole period
\* and the unit areas add up to the area of the property.
C14_ConservationWhenFullyLet ==
    (JustCalculated /\ FullyLet)
    => \A c \in {i.cost_category : i \in invoices} :
           NoOverrides(c)
           => Conserved(c, _get_costs_by_category(invoices).allocated_costs[c])

\* C14 is reached: 100.01 of water is charged as 50.01 to each of the two
\* flats, one cent more than the total.
C14_Witness ==
    /\ JustCalculated
    /\ FullyLet
    /\ {i.id : i \in invoices} = {"I3"}
    /\ ChargedForCategory("WASSERVERSORGUNG") = 10002

\* C15: an invoice that names a unit is not summed into the shared pools of
\* its category: the results of the other units are what they would be
\* without that invoice.
C15_UnitInvoiceStaysWithItsUnit ==
    JustCalculated
    => \A i \in invoices :
           i.unit_id # NULL
           => \A r \in results :
                  r.unit_id # i.unit_id
                  => [r EXCEPT !.id = NoResult]
                         \in Values(calculate_settlement(invoices \ {i},
                                                         manual_entries).results)

\* C16: requests on one settlement are served as if one after the other. When
\* a recalculation that was under way while other requests were served
\* commits, no unit has two results, the results are those of a calculation
\* on the invoices and manual entries stored at that moment, and every
\* document that was linked to the result of a unit is linked to the new
\* result of that unit if there is one.
OverlappedCommit == in_flight # Idle /\ in_flight' = Idle /\ response' = 200

C16_SerialOutcome ==
    [][OverlappedCommit
        => /\ \A r1, r2 \in results' : r1.unit_id = r2.unit_id => r1 = r2
           /\ Values(results') = Values(calculate_settlement(invoices, manual_entries).results)
           /\ \A d \in documents', o \in results, n \in results' :
                  (\E b \in documents : b.id = d.id /\ b.settlement_result_id = o.id)
                  /\ n.unit_id = o.unit_id
                  => d.settlement_result_id = n.id]_vars

\* C17: result rows are created, changed and deleted by calculate_settlement
\* only: a step that changes the stored results is a recalculation, and no
\* step leaves a row of the same id with another value in any field.
C17_ResultsBelongToTheCalculation ==
    [][/\ \A o \in results, r \in results' : r.id = o.id => r = o
       /\ results' # results
          => request' \in RecalculatingHandlers \cup {"calculate_settlement_route"}]_vars

\* C18: a recalculation of a settlement leaves the units, tenants and unit
\* allocations alone, and the invoices and manual entries when it is the
\* calculate request; it leaves the result rows of every other settlement
\* alone; it neither adds nor deletes a document, and the only document field
\* it changes is the result reference of documents that were linked to a
\* result of the settlement.
C18_RecalculationFrame ==
    [][request' \in RecalculatingHandlers
        => /\ UNCHANGED <<units, tenants, allocations, total_area_sqm>>
           /\ request' = "calculate_settlement_route"
              => UNCHANGED <<invoices, manual_entries>>
           /\ {r \in results' : r.settlement_id # ThisSettlement}
                  = {r \in results : r.settlement_id # ThisSettlement}
           /\ {d.id : d \in documents'} = {d.id : d \in documents}
           /\ \A d \in documents, e \in documents' :
                  e.id = d.id
                  => /\ [e EXCEPT !.settlement_result_id = d.settlement_result_id] = d
                     /\ e # d => \E r \in results :
                                     /\ r.settlement_id = ThisSettlement
                                     /\ r.id = d.settlement_result_id
                     /\ e # d => \/ e.settlement_result_id = NoResult
                                 \/ \E n \in results' :
                                        /\ n.settlement_id = ThisSettlement
                                        /\ n.id = e.settlement_result_id]_vars

\* a calculate request went through that relinked a document of the
\* settlement, next to the rows of the other settlement
C18_Witness ==
    /\ request = "calculate_settlement_route"
    /\ response = 200
    /\ OtherResults \subseteq results
    /\ OtherDocuments \subseteq documents
    /\ \E d \in documents, r \in results :
           /\ d.settlement_id = ThisSettlement
           /\ r.settlement_id = ThisSettlement
           /\ d.settlement_result_id = r.id

\* C19: a recalculation that goes through keeps every document that was
\* linked to a result of a unit which has no result afterwards, with a null
\* result reference; and a recalculation keeps every document whose result
\* reference is null, with a null reference, whatever units have results
\* afterwards.
C19_UnlinkedStaysUnlinked ==
    [][/\ SuccessfulRecalculation
          => \A d \in documents, o \in results :
                 d.settlement_result_id = o.id
                 /\ o.settlement_id = ThisSettlement
                 /\ (\A n \in results' : n.settlement_id = ThisSettlement
                                          => n.unit_id # o.unit_id)
                 => \E e \in documents' :
                        e.id = d.id /\ e.settlement_result_id = NoResult
       /\ request' \in RecalculatingHandlers
          => \A d \in documents :
                 d.settlement_result_id = NoResult
                 => \E e \in documents' :
                        e.id = d.id /\ e.settlement_result_id = NoResult]_vars

\* a calculate request went through after which every unit has a result and
\* a document of the settlement has a null result reference
C19_Witness ==
    /\ request = "calculate_settlement_route"
    /\ response = 200
    /\ \A u \in UnitIds : \E r \in results :
           r.settlement_id = ThisSettlement /\ r.unit_id = u
    /\ \E d \in documents :
           d.settlement_id = ThisSettlement /\ d.settlement_result_id = NoResult

Later(a, b) == CHOOSE x \in {a, b} : \A y \in {a, b} : x >= y
Earlier(a, b) == CHOOSE x \in {a, b} : \A y \in {a, b} : x =< y

\* the days from the later of the two starts to the earlier of the two ends,
\* both included, and 0 when there is none
DaysLet(t) ==
    Cardinality({day \in settlement.period_start..settlement.period_end :
                    /\ day >= Later(t.move_in_date, settlement.period_start)
                    /\ day =< (IF t.move_out_date = NoDate
                               THEN settlement.period_end
                               ELSE Earlier(t.move_out_date, settlement.period_end))})

\* C20: the occupancy_days of a stored result is the number of days from
\* max(move_in_date, period_start) to min(move_out_date, period_end), or to
\* period_end when the tenant has no move-out date, both days included, and
\* 0 when the first of them lies after the second.
C20_OccupancyDays ==
    \A r \in results : \A i \in DOMAIN tenants[r.unit_id] :
        tenants[r.unit_id][i].id = r.tenant_id
        => r.occupancy_days = DaysLet(tenants[r.unit_id][i])

\* U1 is let from day 26 to a day after the period (15 days), or its tenant
\* moved out the day before moving in (0 days)
C20_Witness ==
    /\ JustCalculated
    /\ \E r \in results :
           /\ r.unit_id = "U1"
           /\ tenants["U1"][1].move_in_date = 26
           /\ \/ tenants["U1"][1].move_out_date = 50 /\ r.occupancy_days = 15
              \/ tenants["U1"][1].move_out_date = 25 /\ r.occupancy_days = 0

\* C21: with invoices that count entirely, the percentage and the method of
\* every stored breakdown are those of the UnitAllocation row of the unit and
\* the category when there is one, and otherwise the unit's area over the
\* property's total area with the method WOHNFLAECHE; the percentages of the
\* units of a category are not made to add up to 1.
C21_AllocationVerbatimOrByArea ==
    \A r \in results : \A b \in r.cost_breakdowns :
        IF \E a \in allocations :
               a.unit_id = r.unit_id /\ a.cost_category = b.cost_category
        THEN \A a \in allocations :
                 a.unit_id = r.unit_id /\ a.cost_category = b.cost_category
                 => /\ b.allocation_percentage = a.allocation_percentage
                    /\ b.allocation_method = a.allocation_method
        ELSE /\ b.allocation_percentage * total_area_sqm = units[r.unit_id] * 10000
             /\ b.allocation_method = "WOHNFLAECHE"

\* U1 has a row of 60 % by consumption for heating and U2 has none: the
\* heating breakdowns carry 60 % VERBRAUCH and 50 % WOHNFLAECHE, 110 % together
C21_Witness ==
    /\ JustCalculated
    /\ allocations = {HeatingByConsumption}
    /\ \E r \in results : \E b \in r.cost_breakdowns :
           /\ r.unit_id = "U1"
           /\ b.cost_category = "HEIZUNG"
           /\ b.allocation_percentage = 6000
           /\ b.allocation_method = "VERBRAUCH"
    /\ \E r \in results : \E b \in r.cost_breakdowns :
           /\ r.unit_id = "U2"
           /\ b.cost_category = "HEIZUNG"
           /\ b.allocation_percentage = 5000
           /\ b.allocation_method = "WOHNFLAECHE"

\* total_amount x (allocation_percentage or 1): a percentage of null or of 0
\* lets the invoice count entirely
CountsOrEntirely(i) ==
    IF i.allocation_percentage = NoAmount \/ i.allocation_percentage = 0
    THEN RInt(i.total_amount)
    ELSE RMul(RInt(i.total_amount), Pct(i.allocation_percentage))

InvoicesOf(c) == {i \in invoices : i.cost_category = c}
OriginalByCategory(c) == ISum([i \in InvoicesOf(c) |-> i.total_amount], InvoicesOf(c))
AllocatedOrEntirely(c) == RSum([i \in InvoicesOf(c) |-> CountsOrEntirely(i)], InvoicesOf(c))
RatioOrEntirely(c) ==
    IF OriginalByCategory(c) > 0
    THEN Rat(AllocatedOrEntirely(c).n, AllocatedOrEntirely(c).d * OriginalByCategory(c))
    ELSE RInt(1)

\* C22: for every category with invoices, the breakdowns of every result
\* carry the sum of total_amount as total_property_cost, are charged from the
\* sum of total_amount x (allocation_percentage or 1), where a percentage of
\* null or of 0 lets the invoice count entirely, and carry the unit's
\* percentage times allocated / original (1 when original is not positive).
C22_CostsByCategory ==
    \A r \in results : \A b \in r.cost_breakdowns :
        /\ b.total_property_cost = OriginalByCategory(b.cost_category)
        /\ IsRoundedHalfUp(b.allocated_amount,
               RMul(RMul(AllocatedOrEntirely(b.cost_category),
                         _get_allocation(r.unit_id, b.cost_category).percentage),
                    TimeShare(r)))
        /\ IsRoundedHalfUp(b.allocation_percentage,
               RMul(RMul(RatioOrEntirely(b.cost_category),
                         _get_allocation(r.unit_id, b.cost_category).percentage),
                    RInt(10000)))

\* what a manual entry adds to the total_costs of a result: the cents nearest
\* to amount x unit area / total area (a half goes away from 0) for an entry
\* of the whole house, the amount for an entry of the unit, nothing otherwise
EntryAdds(r, e) ==
    IF e.unit_id = NULL
    THEN CHOOSE k \in -Abs(e.amount)..Abs(e.amount) :
             IsRoundedHalfUp(k, Rat(e.amount * units[r.unit_id], total_area_sqm))
    ELSE IF e.unit_id = r.unit_id THEN e.amount
    ELSE 0

C24_Prepayments ==
    \A r \in results : \A i \in DOMAIN tenants[r.unit_id] :
        tenants[r.unit_id][i].id = r.tenant_id
        => IF tenants[r.unit_id][i].monthly_prepayment = NoAmount
           THEN r.total_prepayments = 0
           ELSE IsRoundedHalfUp(r.total_prepayments,
                    Rat(tenants[r.unit_id][i].monthly_prepayment
                            * r.occupancy_days * 100, 3044))

\* 1014.67 a month: 500.00 for the 15 days of U1, 1000.00 for the 30 of U2
C24_Witness ==
    /\ JustCalculated
    /\ \E r \in results :
           /\ r.unit_id = "U1"
           /\ tenants["U1"][1].monthly_prepayment = 101467
           /\ r.occupancy_days = 15
           /\ r.total_prepayments = 50000
    /\ \E r \in results :
           r.unit_id = "U2" /\ r.occupancy_days = 30 /\ r.total_prepayments = 100000

\* C25: with every invoice percentage and every unit percentage in [0, 1],
\* the allocation_percentage of every stored breakdown is the invoice
\* allocation ratio of its category times the unit's percentage, to four
\* decimals, and lies in [0, 1], whatever the invoice amounts.
C25_PercentageInRange ==
    \A r \in results : \A b \in r.cost_breakdowns :
        /\ IsRoundedHalfUp(b.allocation_percentage,
               RMul(RMul(_get_costs_by_category(invoices).invoice_allocations[b.cost_category],
                         _get_allocation(r.unit_id, b.cost_category).percentage),
                    RInt(10000)))
        /\ b.allocation_percentage >= 0
        /\ b.allocation_percentage =< 10000

C28_DocumentsReferenceTheirSettlement ==
    \A d \in documents :
        \/ d.settlement_result_id = NoResult
        \/ \E r \in results :
               r.id = d.settlement_result_id /\ r.settlement_id = d.settlement_id

\* after an upload, the deletion of the other settlement's document and a
\* recalculation, the document is linked to a result of its settlement
C28_Witness ==
    /\ request = "calculate_settlement_route"
    /\ response = 200
    /\ \A d \in documents : d.settlement_id = ThisSettlement
    /\ \E d \in documents, r \in results :
           r.id = d.settlement_result_id /\ r.settlement_id = ThisSettlement

\* C29: the stored settlement starts before it ends, so the total_days of a
\* calculation, period_end - period_start + 1, is at least 2.
C29_PeriodIsOrdered ==
    settlement.exists
    => /\ settlement.period_start < settlement.period_end
       /\ (settlement.period_end - settlement.period_start) + 1 >= 2

\* C30: a delete request removes the settlement, with its invoices, manual
\* entries, documents and results, exactly when its status is DRAFT; with any
\* other status it is rejected and all of them stay as they are.
C30_OnlyDraftsAreDeleted ==
    [][(request' = "delete_settlement" /\ settlement.exists)
        => IF settlement.status = "DRAFT"
           THEN /\ response' = 204
                /\ ~settlement'.exists
                /\ invoices' = {} /\ manual_entries' = {}
                /\ \A d \in documents' : d.settlement_id # ThisSettlement
                /\ \A r \in results' : r.settlement_id # ThisSettlement
           ELSE /\ response' = 400
                /\ UNCHANGED <<settlement, invoices, manual_entries, documents,
                               results>>]_vars

\* the deletion of a settlement that is not a draft and has an invoice, a
\* manual entry, a document and results was rejected
C30_Witness ==
    /\ request = "delete_settlement"
    /\ response = 400
    /\ settlement.exists
    /\ settlement.status \in {"CALCULATED", "FINALIZED"}
    /\ invoices # {} /\ manual_entries # {} /\ documents # {} /\ results # {}
====
